---- MODULE Spec2Model ----
(***************************************************************************)
(* Wash-trade detection engine of src/app.py (class WashTradeDetector):    *)
(* the processing of a cleaned batch (enhance_data_processing_with_debug), *)
(* the activity statistics, the single-direction filter, the round         *)
(* candidate generator and the pattern aggregator.                         *)
(*                                                                         *)
(* Accounts, lotteries and periods (期号) are opaque comparable keys and    *)
(* are written as naturals.  A direction (投注方向) is the pair             *)
(* <<position, base>> standing for the text "position-base", or "base"     *)
(* when position = "", and "" when both are empty.  Amounts are naturals;  *)
(* a similarity is the exact fraction <<num, den>> in lowest terms;        *)
(* similarity thresholds are in percent.                                   *)
(***************************************************************************)
EXTENDS Integers, Sequences, FiniteSets, TLC

VARIABLES
    config,                           \* self.config
    set_order,                        \* iteration order of the 2-element sets of opposite_groups
    df_clean,                         \* the cleaned batch handed to the processing
    data_processed,                   \* self.data_processed
    df_valid,                         \* self.df_valid (<<>> stands for None)
    account_total_periods_by_lottery, \* self.account_total_periods_by_lottery
    account_record_stats_by_lottery,  \* self.account_record_stats_by_lottery
    pc,                               \* position of the caller: start, processed, detecting, done
    df_filtered,                      \* detect_all_wash_trades: df_filtered
    account_count,                    \* detect_all_wash_trades: loop variable
    wash_records,                     \* detect_n_account_patterns_optimized: wash_records
    all_patterns                      \* detect_all_wash_trades: all_patterns

vars == <<config, set_order, df_clean, data_processed, df_valid,
          account_total_periods_by_lottery, account_record_stats_by_lottery,
          pc, df_filtered, account_count, wash_records, all_patterns>>

(***************************************************************************)
(* Bounds of the explored inputs.                                          *)
(***************************************************************************)
MaxRows == 4
MaxRoundRows == 3

(***************************************************************************)
(* Generic helpers.                                                        *)
(***************************************************************************)
Range(s) == {s[i] : i \in DOMAIN s}

Min(S) == CHOOSE x \in S : \A y \in S : x <= y

Max(S) == CHOOSE x \in S : \A y \in S : x >= y

RECURSIVE Gcd(_, _)
Gcd(a, b) == IF b = 0 THEN a ELSE Gcd(b, a % b)

\* a / b as an exact fraction in lowest terms (b > 0)
Ratio(a, b) == LET g == Gcd(a, b) IN <<a \div g, b \div g>>

RECURSIVE SumSeq(_)
SumSeq(s) == IF s = <<>> THEN 0 ELSE Head(s) + SumSeq(Tail(s))

\* itertools.combinations(s, n): the n-element subsequences of s, in lexicographic order of positions
RECURSIVE Combinations(_, _)
Combinations(s, n) ==
    IF n = 0 THEN << <<>> >>
    ELSE IF Len(s) < n THEN <<>>
    ELSE LET withHead == Combinations(Tail(s), n - 1)
         IN  [i \in 1..Len(withHead) |-> <<Head(s)>> \o withHead[i]]
             \o Combinations(Tail(s), n)

\* Series.unique(): the distinct values in order of first appearance
RECURSIVE Unique(_)
Unique(s) ==
    IF s = <<>> THEN <<>>
    ELSE LET init == Unique(SubSeq(s, 1, Len(s) - 1))
             last == s[Len(s)]
         IN  IF last \in Range(init) THEN init ELSE Append(init, last)

\* sorted(list of naturals)
RECURSIVE SortedNat(_)
SortedNat(s) ==
    IF s = <<>> THEN <<>>
    ELSE LET m == Min(Range(s))
             i == CHOOSE k \in DOMAIN s : s[k] = m
         IN  <<m>> \o SortedNat(SubSeq(s, 1, i - 1) \o SubSeq(s, i + 1, Len(s)))

\* sorted(a) == sorted(b) for two lists: equal as multisets
SameSorted(a, b) ==
    /\ Len(a) = Len(b)
    /\ \A x \in Range(a) \cup Range(b) :
          Cardinality({i \in DOMAIN a : a[i] = x}) = Cardinality({i \in DOMAIN b : b[i] = x})

(***************************************************************************)
(* Direction model and configuration.                                      *)
(***************************************************************************)
Base(d) == <<"", d>>

NoDirection == <<"", "">>

\* '-' in direction: only a position-qualified direction contains the separator
HasDash(d) == d[1] # ""

\* class Config: the values detection reads.  opposite_groups is the list of
\* 2-element sets, each written in its declaration order.
Config ==
    [ min_amount |-> 10,
      amount_similarity_threshold |-> 80,
      max_accounts_in_group |-> 5,
      period_thresholds |->
          [ low_activity |-> 10, medium_activity_high |-> 50, high_activity_high |-> 100,
            min_periods_low |-> 3, min_periods_medium |-> 5, min_periods_high |-> 8,
            min_periods_very_high |-> 11 ],
      account_count_similarity_thresholds |-> (2 :> 80) @@ (3 :> 85) @@ (4 :> 90) @@ (5 :> 95),
      account_period_diff_threshold |-> 150,
      opposite_groups |->
          << <<"Big", "Small">>, <<"Odd", "Even">>, <<"Dragon", "Tiger">>,
             <<"Prime", "Composite">>, <<"Home", "Wild">>,
             <<"XBig", "XSmall">>, <<"XOdd", "XEven">>,
             <<"SumBig", "SumSmall">>, <<"SumOdd", "SumEven">>,
             <<"ArmyBig", "ArmySmall">>, <<"ArmyOdd", "ArmyEven">> >> ]

\* The configuration is a parameter of WashTradeDetector (main overrides
\* min_amount, amount_similarity_threshold and max_accounts_in_group before
\* constructing it).  TunedConfig keeps the tables of Config and scales the
\* activity breakpoints, the required minimums and the period-difference
\* threshold to batches of a few rows.
TunedConfig ==
    [ Config EXCEPT
        !.min_amount = 1,
        !.max_accounts_in_group = 3,
        !.period_thresholds =
          [ low_activity |-> 1, medium_activity_high |-> 2, high_activity_high |-> 3,
            min_periods_low |-> 1, min_periods_medium |-> 2, min_periods_high |-> 3,
            min_periods_very_high |-> 4 ],
        !.account_period_diff_threshold = 1 ]

\* the positions listed by _get_valid_direction_combinations
Positions ==
    << "Champion", "RunnerUp", "Third", "Fourth", "Fifth", "Sixth", "Seventh",
       "Eighth", "Ninth", "Tenth", "Hundreds", "Tens", "Units",
       "Ball1", "Ball2", "Ball3", "Ball4", "Ball5" >>

\* `x in opposites` for a direction text x and one group of opposite_groups
InGroup(d, g) == d[1] = "" /\ d[2] \in Range(g)

\* list(opposites): the two members in the iteration order of the set
ListOf(g) == IF set_order = "declared" THEN g ELSE <<g[2], g[1]>>

(***************************************************************************)
(* Activity profiler.                                                      *)
(***************************************************************************)
\* df[column].unique() as a set
LotteriesOf(df) == {df[i].lottery : i \in DOMAIN df}

AccountsOf(df, lottery) == {df[i].account : i \in {j \in DOMAIN df : df[j].lottery = lottery}}

\* groupby('会员账号')['期号'].nunique() within one lottery
PeriodCounts(df, lottery) ==
    [a \in AccountsOf(df, lottery) |->
        Cardinality({df[i].period : i \in {j \in DOMAIN df :
                        df[j].lottery = lottery /\ df[j].account = a}})]

\* groupby('会员账号').size() within one lottery
RecordCounts(df, lottery) ==
    [a \in AccountsOf(df, lottery) |->
        Cardinality({j \in DOMAIN df : df[j].lottery = lottery /\ df[j].account = a})]

\* calculate_account_total_periods_by_lottery: the two tables it rebuilds
TotalPeriodsTable(df) == [l \in LotteriesOf(df) |-> PeriodCounts(df, l)]

RecordStatsTable(df) == [l \in LotteriesOf(df) |-> RecordCounts(df, l)]

(***************************************************************************)
(* Processing of a cleaned batch.                                          *)
(***************************************************************************)
\* extract_bet_amount_safe on the text of an integer: the number when it
\* reaches min_amount (direct conversion); for a negative number below
\* min_amount the digits after the sign, matched by the pattern ([\d,.]+)$,
\* when they reach min_amount; otherwise 0
extract_bet_amount_safe(amount) ==
    IF amount >= config.min_amount THEN amount
    ELSE IF amount < 0 /\ 0 - amount >= config.min_amount THEN 0 - amount
    ELSE 0

\* the rows with 投注金额 filled in
Extracted(df) == [i \in DOMAIN df |-> [df[i] EXCEPT !.amount = extract_bet_amount_safe(@)]]

\* the rows taken without the mask
ValidRowsUnmasked(df) == Extracted(df)

\* df_clean[(投注方向 != '') & (投注金额 >= min_amount)]
ValidRows(df) ==
    SelectSeq(Extracted(df),
              LAMBDA r : r.direction # NoDirection /\ r.amount >= config.min_amount)

\* the processing without the call of calculate_account_total_periods_by_lottery
ProcessBatchWithoutStats(batch) ==
    /\ pc = "start"
    /\ df_clean' = batch
    /\ IF ValidRows(batch) = <<>>
         THEN UNCHANGED <<data_processed, df_valid>>
         ELSE /\ data_processed' = TRUE
              /\ df_valid' = ValidRows(batch)
    /\ pc' = "processed"
    /\ UNCHANGED <<config, set_order, df_filtered, account_count, wash_records, all_patterns,
                   account_total_periods_by_lottery, account_record_stats_by_lottery>>

\* enhance_data_processing_with_debug(batch)
ProcessBatch(batch) ==
    /\ pc = "start"
    /\ df_clean' = batch
    /\ account_total_periods_by_lottery' = TotalPeriodsTable(batch)
    /\ account_record_stats_by_lottery' = RecordStatsTable(batch)
    /\ IF ValidRows(batch) = <<>>
         THEN UNCHANGED <<data_processed, df_valid>>
         ELSE /\ data_processed' = TRUE
              /\ df_valid' = ValidRows(batch)
    /\ pc' = "processed"
    /\ UNCHANGED <<config, set_order, df_filtered, account_count, wash_records, all_patterns>>

(***************************************************************************)
(* Single-direction filter.                                                *)
(***************************************************************************)
\* the mask grouped by lottery as well: groupby(['期号', '原始彩种', '会员账号'])
MultiDirectionPerLottery(df, i) ==
    Cardinality({df[j].direction : j \in {k \in DOMAIN df :
                    /\ df[k].period = df[i].period
                    /\ df[k].lottery = df[i].lottery
                    /\ df[k].account = df[i].account}}) > 1

\* groupby(['期号', '会员账号'])['投注方向'].transform('nunique') > 1, for row i
MultiDirection(df, i) ==
    Cardinality({df[j].direction : j \in {k \in DOMAIN df :
                    df[k].period = df[i].period /\ df[k].account = df[i].account}}) > 1

\* exclude_multi_direction_accounts: df_valid[~multi_direction_mask]
exclude_multi_direction_accounts(df) ==
    LET RECURSIVE Pick(_)
        Pick(i) == IF i > Len(df) THEN <<>>
                   ELSE (IF MultiDirection(df, i) THEN <<>> ELSE <<df[i]>>) \o Pick(i + 1)
    IN  Pick(1)

(***************************************************************************)
(* Round candidate generator.                                              *)
(***************************************************************************)
\* An opposite_type text: "d1-d2" (vs = FALSE) or "d1 vs d2" (vs = TRUE)
TypeText(vs, d1, d2) == [vs |-> vs, d1 |-> d1, d2 |-> d2]

Combo(d1, d2, vs) ==
    [directions |-> <<d1, d2>>, dir1_count |-> 1, dir2_count |-> 1,
     opposite_type |-> TypeText(vs, d1, d2)]

\* the combinations of one pass over opposite_groups, without or with a
\* position; a group whose len is not 2 is passed over
GroupCombos(position) ==
    LET groups == SelectSeq(config.opposite_groups, LAMBDA g : Len(g) = 2)
    IN  [g \in 1..Len(groups) |->
            IF position = ""
              THEN Combo(Base(ListOf(groups[g])[1]), Base(ListOf(groups[g])[2]), FALSE)
              ELSE Combo(<<position, ListOf(groups[g])[1]>>,
                         <<position, ListOf(groups[g])[2]>>, TRUE)]

RECURSIVE PositionCombos(_)
PositionCombos(p) ==
    IF p > Len(Positions) THEN <<>> ELSE GroupCombos(Positions[p]) \o PositionCombos(p + 1)

\* _get_valid_direction_combinations
ValidDirectionCombinations(n_accounts) ==
    IF n_accounts = 2 THEN GroupCombos("") \o PositionCombos(1) ELSE <<>>

\* _identify_opposite_type
IdentifyOppositeType(direction1, direction2) ==
    LET groups == config.opposite_groups
        pairs == << <<"Big", "Small">>, <<"Odd", "Even">>, <<"Dragon", "Tiger">>,
                    <<"Prime", "Composite">>, <<"Home", "Wild">>, <<"XBig", "XSmall">>,
                    <<"XOdd", "XEven">>, <<"SumBig", "SumSmall">>, <<"SumOdd", "SumEven">>,
                    <<"ArmyBig", "ArmySmall">>, <<"ArmyOdd", "ArmyEven">> >>
        matches(i) == \/ direction1 = Base(pairs[i][1]) /\ direction2 = Base(pairs[i][2])
                      \/ direction1 = Base(pairs[i][2]) /\ direction2 = Base(pairs[i][1])
    IN  IF \E g \in DOMAIN groups : InGroup(direction1, groups[g]) /\ InGroup(direction2, groups[g])
          THEN TypeText(FALSE, direction1, direction2)
        ELSE IF /\ HasDash(direction1) /\ HasDash(direction2)
                /\ direction1[1] = direction2[1]
                /\ \E g \in DOMAIN groups : /\ direction1[2] \in Range(groups[g])
                                           /\ direction2[2] \in Range(groups[g])
          THEN TypeText(TRUE, direction1, direction2)
        ELSE IF \E i \in DOMAIN pairs : matches(i)
          THEN LET i == CHOOSE k \in DOMAIN pairs : matches(k) /\ \A j \in 1..(k - 1) : ~matches(j)
               IN  TypeText(FALSE, Base(pairs[i][1]), Base(pairs[i][2]))
        ELSE TypeText(FALSE, direction1, direction2)

\* the period difference check left out: every combination is allowed
CheckAccountPeriodDifferenceOff(account_group, lottery) == TRUE

\* _check_account_period_difference
CheckAccountPeriodDifference(account_group, lottery) ==
    IF lottery \notin DOMAIN account_total_periods_by_lottery THEN TRUE
    ELSE LET stats == account_total_periods_by_lottery[lottery]
         IN  IF \E i \in DOMAIN account_group : account_group[i] \notin DOMAIN stats THEN TRUE
             ELSE IF Len(account_group) < 2 THEN TRUE
             ELSE LET account_periods == {stats[account_group[i]] : i \in DOMAIN account_group}
                  IN  ~(Max(account_periods) - Min(account_periods)
                            > config.account_period_diff_threshold)

\* the base threshold taken for every group size
SimilarityThresholdBase(n_accounts) == config.amount_similarity_threshold

\* similarity_threshold of _detect_combinations_for_period, in percent
SimilarityThreshold(n_accounts) ==
    IF n_accounts \in DOMAIN config.account_count_similarity_thresholds
      THEN config.account_count_similarity_thresholds[n_accounts]
      ELSE config.amount_similarity_threshold

\* the first combination whose sorted directions equal the group's, or 0
MatchedIndex(group_directions, valid_combinations) ==
    LET hits == {c \in DOMAIN valid_combinations :
                    SameSorted(group_directions, valid_combinations[c].directions)}
    IN  IF hits = {} THEN 0 ELSE Min(hits)

\* matched_combo: <<>> stands for None
MatchedCombo(group_directions, n_accounts, valid_combinations) ==
    LET c == MatchedIndex(group_directions, valid_combinations)
    IN  IF c # 0 THEN <<valid_combinations[c]>>
        ELSE IF n_accounts = 2
          THEN LET opposite_type == IdentifyOppositeType(group_directions[1], group_directions[2])
               IN  IF ~opposite_type.vs
                     THEN <<[directions |-> <<group_directions[1], group_directions[2]>>,
                             dir1_count |-> 1, dir2_count |-> 1,
                             opposite_type |-> opposite_type]>>
                     ELSE <<>>
        ELSE <<>>

\* dir1_total > 0 and dir2_total > 0
BothSidesPositive(dir1_total, dir2_total) == dir1_total > 0 /\ dir2_total > 0

\* the comparison reversed: similarity <= similarity_threshold
MeetsThresholdBelow(lo, hi, threshold) == lo * 100 <= threshold * hi

\* the operands of the ratio swapped: max / min >= similarity_threshold
MeetsThresholdSwapped(lo, hi, threshold) == hi * 100 >= threshold * lo

\* similarity >= similarity_threshold
MeetsThreshold(lo, hi, threshold) == lo * 100 >= threshold * hi

\* the larger side total over the smaller
SimilarityInverted(dir1_total, dir2_total) ==
    Ratio(Max({dir1_total, dir2_total}), Min({dir1_total, dir2_total}))

\* similarity = min(dir1_total, dir2_total) / max(dir1_total, dir2_total)
Similarity(dir1_total, dir2_total) ==
    Ratio(Min({dir1_total, dir2_total}), Max({dir1_total, dir2_total}))

\* the candidate records of one account_group of one period: <<>> or <<record>>
GroupCandidateAt(period_data, account_group, n_accounts, valid_combinations, similarity_threshold) ==
    LET lottery == period_data[1].lottery
        first_bet(account) ==
            period_data[Min({i \in DOMAIN period_data : period_data[i].account = account})]
        group_directions == [i \in DOMAIN account_group |-> first_bet(account_group[i]).direction]
        group_amounts == [i \in DOMAIN account_group |-> first_bet(account_group[i]).amount]
        matched == MatchedCombo(group_directions, n_accounts, valid_combinations)
        dir1 == matched[1].directions[1]
        dir1_total == SumSeq([i \in DOMAIN group_amounts |->
                                 IF group_directions[i] = dir1 THEN group_amounts[i] ELSE 0])
        dir2_total == SumSeq([i \in DOMAIN group_amounts |->
                                 IF group_directions[i] = dir1 THEN 0 ELSE group_amounts[i]])
        lo == IF dir1_total <= dir2_total THEN dir1_total ELSE dir2_total
        hi == IF dir1_total <= dir2_total THEN dir2_total ELSE dir1_total
    IN  IF ~CheckAccountPeriodDifference(account_group, lottery) THEN <<>>
        ELSE IF matched = <<>> THEN <<>>
        ELSE IF ~BothSidesPositive(dir1_total, dir2_total) THEN <<>>
        ELSE IF ~MeetsThreshold(lo, hi, similarity_threshold) THEN <<>>
        ELSE << [ period |-> period_data[1].period,
                  lottery |-> lottery,
                  accounts |-> account_group,
                  directions |-> group_directions,
                  amounts |-> group_amounts,
                  total_amount |-> dir1_total + dir2_total,
                  similarity |-> Similarity(dir1_total, dir2_total),
                  n_accounts |-> n_accounts,
                  opposite_type |-> matched[1].opposite_type ] >>

\* the same with similarity_threshold looked up for n_accounts
GroupCandidate(period_data, account_group, n_accounts, valid_combinations) ==
    GroupCandidateAt(period_data, account_group, n_accounts, valid_combinations,
                     SimilarityThreshold(n_accounts))

\* _detect_combinations_for_period, for a given value of similarity_threshold
DetectCombinationsForPeriodAt(period_data, period_accounts, n_accounts, valid_combinations, similarity_threshold) ==
    LET groups == Combinations(period_accounts, n_accounts)
        RECURSIVE Collect(_)
        Collect(g) ==
            IF g > Len(groups) THEN <<>>
            ELSE GroupCandidateAt(period_data, groups[g], n_accounts, valid_combinations,
                                  similarity_threshold)
                 \o Collect(g + 1)
    IN  Collect(1)

\* _detect_combinations_for_period
DetectCombinationsForPeriod(period_data, period_accounts, n_accounts, valid_combinations) ==
    DetectCombinationsForPeriodAt(period_data, period_accounts, n_accounts,
                                  valid_combinations, SimilarityThreshold(n_accounts))

\* the keys of df_filtered.groupby(['期号', '原始彩种']), in sorted order
KeyLess(k1, k2) == k1[1] < k2[1] \/ (k1[1] = k2[1] /\ k1[2] < k2[2])

RECURSIVE SortedKeys(_)
SortedKeys(K) ==
    IF K = {} THEN <<>>
    ELSE LET m == CHOOSE k \in K : \A o \in K \ {k} : KeyLess(k, o)
         IN  <<m>> \o SortedKeys(K \ {m})

PeriodKeys(df) == SortedKeys({<<df[i].period, df[i].lottery>> : i \in DOMAIN df})

\* period_groups.get_group(period_key)
GetGroup(df, key) == SelectSeq(df, LAMBDA r : r.period = key[1] /\ r.lottery = key[2])

\* the account column taken without unique()
PeriodAccountsRaw(period_data) == [i \in DOMAIN period_data |-> period_data[i].account]

\* period_data['会员账号'].unique()
PeriodAccounts(period_data) == Unique([i \in DOMAIN period_data |-> period_data[i].account])

\* the candidates detect_n_account_patterns_optimized collects in wash_records,
\* for a given value of similarity_threshold
CollectWashRecordsAt(df, n_accounts, similarity_threshold) ==
    LET period_keys == PeriodKeys(df)
        valid_direction_combinations == ValidDirectionCombinations(n_accounts)
        RECURSIVE Batch(_)
        Batch(k) ==
            IF k > Len(period_keys) THEN <<>>
            ELSE LET period_data == GetGroup(df, period_keys[k])
                     period_accounts == PeriodAccounts(period_data)
                 IN  (IF Len(period_accounts) < n_accounts THEN <<>>
                      ELSE DetectCombinationsForPeriodAt(period_data, period_accounts,
                                                         n_accounts,
                                                         valid_direction_combinations,
                                                         similarity_threshold))
                     \o Batch(k + 1)
    IN  Batch(1)

\* the candidates detect_n_account_patterns_optimized collects in wash_records
CollectWashRecords(df, n_accounts) ==
    CollectWashRecordsAt(df, n_accounts, SimilarityThreshold(n_accounts))

(***************************************************************************)
(* Pattern aggregator.                                                     *)
(***************************************************************************)
\* the breakpoints taken as exclusive upper ends: a total equal to a
\* breakpoint falls in the tier above
ActivityLevelStrict(account_group, lottery) ==
    IF lottery \notin DOMAIN account_total_periods_by_lottery THEN "unknown"
    ELSE LET stats == account_total_periods_by_lottery[lottery]
             min_total_periods ==
                 Min({IF account_group[i] \in DOMAIN stats THEN stats[account_group[i]] ELSE 0 :
                        i \in DOMAIN account_group})
             t == config.period_thresholds
         IN  IF min_total_periods < t.low_activity THEN "low"
             ELSE IF min_total_periods < t.medium_activity_high THEN "medium"
             ELSE IF min_total_periods < t.high_activity_high THEN "high"
             ELSE "very_high"

\* get_account_group_activity_level
get_account_group_activity_level(account_group, lottery) ==
    IF lottery \notin DOMAIN account_total_periods_by_lottery THEN "unknown"
    ELSE LET stats == account_total_periods_by_lottery[lottery]
             min_total_periods ==
                 Min({IF account_group[i] \in DOMAIN stats THEN stats[account_group[i]] ELSE 0 :
                        i \in DOMAIN account_group})
             t == config.period_thresholds
         IN  IF min_total_periods <= t.low_activity THEN "low"
             ELSE IF min_total_periods <= t.medium_activity_high THEN "medium"
             ELSE IF min_total_periods <= t.high_activity_high THEN "high"
             ELSE "very_high"

\* the required minimums handed out in reverse: the least active tier gets
\* the largest requirement
RequiredMinPeriodsReversed(account_group, lottery) ==
    LET activity_level == get_account_group_activity_level(account_group, lottery)
        t == config.period_thresholds
    IN  IF activity_level = "low" THEN t.min_periods_very_high
        ELSE IF activity_level = "medium" THEN t.min_periods_high
        ELSE IF activity_level = "high" THEN t.min_periods_medium
        ELSE t.min_periods_low

\* a group of unknown activity given the requirement of the low tier
RequiredMinPeriodsUnknownLow(account_group, lottery) ==
    LET activity_level == get_account_group_activity_level(account_group, lottery)
        t == config.period_thresholds
    IN  IF activity_level = "low" \/ activity_level = "unknown" THEN t.min_periods_low
        ELSE IF activity_level = "medium" THEN t.min_periods_medium
        ELSE IF activity_level = "high" THEN t.min_periods_high
        ELSE t.min_periods_very_high

\* get_required_min_periods
get_required_min_periods(account_group, lottery) ==
    LET activity_level == get_account_group_activity_level(account_group, lottery)
        t == config.period_thresholds
    IN  IF activity_level = "low" THEN t.min_periods_low
        ELSE IF activity_level = "medium" THEN t.min_periods_medium
        ELSE IF activity_level = "high" THEN t.min_periods_high
        ELSE t.min_periods_very_high

\* the records left in the order they were collected
SortByPeriodNone(records) == records

\* sorted(records, key=lambda x: x['期号']): stable, ascending
RECURSIVE SortByPeriod(_)
SortByPeriod(records) ==
    IF records = <<>> THEN <<>>
    ELSE LET m == Min({records[i].period : i \in DOMAIN records})
             i == Min({k \in DOMAIN records : records[k].period = m})
         IN  <<records[i]>>
             \o SortByPeriod(SubSeq(records, 1, i - 1) \o SubSeq(records, i + 1, Len(records)))

\* account_group_key of a candidate record
GroupKey(record) == <<SortedNat(record.accounts), record.lottery>>

\* len(sorted_records) > required_min_periods
AdmittedStrict(count, required) == count > required

\* every group admitted whatever its number of records
AdmittedAlways(count, required) == TRUE

\* len(sorted_records) >= required_min_periods
Admitted(count, required) == count >= required

\* a + b and a / n on fractions in lowest terms
FracAdd(a, b) == Ratio(a[1] * b[2] + b[1] * a[2], a[2] * b[2])

RECURSIVE FracSum(_)
FracSum(s) == IF s = <<>> THEN <<0, 1>> ELSE FracAdd(Head(s), FracSum(Tail(s)))

\* the middle of the smallest and the largest value in place of the mean
MeanAsMidrange(s) ==
    LET least == CHOOSE x \in Range(s) : \A y \in Range(s) : x[1] * y[2] <= y[1] * x[2]
        most == CHOOSE x \in Range(s) : \A y \in Range(s) : x[1] * y[2] >= y[1] * x[2]
        t == FracAdd(least, most)
    IN  Ratio(t[1], t[2] * 2)

\* np.mean(similarities)
Mean(s) == LET t == FracSum(s) IN Ratio(t[1], t[2] * Len(s))

\* the pattern appended for one group of records: <<>> or <<pattern>>
GroupPattern(key, records) ==
    LET account_group == key[1]
        lottery == key[2]
        sorted_records == SortByPeriod(records)
        required_min_periods == get_required_min_periods(account_group, lottery)
        types == {sorted_records[i].opposite_type : i \in DOMAIN sorted_records}
    IN  IF ~Admitted(Len(sorted_records), required_min_periods) THEN <<>>
        ELSE << [ accounts |-> account_group,
                  lottery |-> lottery,
                  n_accounts |-> Len(account_group),
                  opposite_type_counts |->
                      [t \in types |->
                          Cardinality({i \in DOMAIN sorted_records :
                                          sorted_records[i].opposite_type = t})],
                  periods |-> Len(sorted_records),
                  total_investment |->
                      SumSeq([i \in DOMAIN sorted_records |-> sorted_records[i].total_amount]),
                  avg_similarity |->
                      Mean([i \in DOMAIN sorted_records |-> sorted_records[i].similarity]),
                  details |-> sorted_records,
                  activity_level |-> get_account_group_activity_level(account_group, lottery),
                  required_min_periods |-> required_min_periods ] >>

\* find_continuous_patterns_optimized
find_continuous_patterns_optimized(records) ==
    LET keys == Unique([i \in DOMAIN records |-> GroupKey(records[i])])
        RECURSIVE Emit(_)
        Emit(k) ==
            IF k > Len(keys) THEN <<>>
            ELSE GroupPattern(keys[k], SelectSeq(records, LAMBDA r : GroupKey(r) = keys[k]))
                 \o Emit(k + 1)
    IN  Emit(1)

(***************************************************************************)
(* detect_all_wash_trades.                                                 *)
(***************************************************************************)
\* the entry with the filter applied in place: self.df_valid is replaced by
\* the filtered records
DetectEnterFilteringInPlace ==
    /\ pc \in {"start", "processed"}
    /\ IF ~data_processed \/ Len(df_valid) = 0
         THEN /\ pc' = "done"
              /\ all_patterns' = <<>>
              /\ UNCHANGED <<df_valid, df_filtered, account_count>>
         ELSE /\ df_filtered' = exclude_multi_direction_accounts(df_valid)
              /\ df_valid' = df_filtered'
              /\ all_patterns' = <<>>
              /\ IF Len(df_filtered') = 0 \/ config.max_accounts_in_group < 2
                   THEN pc' = "done" /\ UNCHANGED account_count
                   ELSE pc' = "detecting" /\ account_count' = 2
    /\ wash_records' = <<>>
    /\ UNCHANGED <<config, set_order, df_clean, data_processed,
                   account_total_periods_by_lottery, account_record_stats_by_lottery>>

\* entry: the guards, the filter and the start of the loop over account_count
DetectEnter ==
    /\ pc \in {"start", "processed"}
    /\ IF ~data_processed \/ Len(df_valid) = 0
         THEN /\ pc' = "done"
              /\ all_patterns' = <<>>
              /\ UNCHANGED <<df_filtered, account_count>>
         ELSE /\ df_filtered' = exclude_multi_direction_accounts(df_valid)
              /\ all_patterns' = <<>>
              /\ IF Len(df_filtered') = 0 \/ config.max_accounts_in_group < 2
                   THEN pc' = "done" /\ UNCHANGED account_count
                   ELSE pc' = "detecting" /\ account_count' = 2
    /\ wash_records' = <<>>
    /\ UNCHANGED <<config, set_order, df_clean, data_processed, df_valid,
                   account_total_periods_by_lottery, account_record_stats_by_lottery>>

\* the iteration with wash_records kept from the passes before: the
\* candidates of the smaller group sizes are aggregated again
DetectNKeepingRecords ==
    /\ pc = "detecting"
    /\ wash_records' = wash_records \o CollectWashRecords(df_filtered, account_count)
    /\ all_patterns' = all_patterns \o find_continuous_patterns_optimized(wash_records')
    /\ IF account_count = config.max_accounts_in_group
         THEN pc' = "done" /\ UNCHANGED account_count
         ELSE pc' = "detecting" /\ account_count' = account_count + 1
    /\ UNCHANGED <<config, set_order, df_clean, data_processed, df_valid, df_filtered,
                   account_total_periods_by_lottery, account_record_stats_by_lottery>>

\* one iteration of the loop: detect_n_account_patterns_optimized(df_filtered, account_count)
DetectN ==
    /\ pc = "detecting"
    /\ wash_records' = CollectWashRecords(df_filtered, account_count)
    /\ all_patterns' = all_patterns \o find_continuous_patterns_optimized(wash_records')
    /\ IF account_count = config.max_accounts_in_group
         THEN pc' = "done" /\ UNCHANGED account_count
         ELSE pc' = "detecting" /\ account_count' = account_count + 1
    /\ UNCHANGED <<config, set_order, df_clean, data_processed, df_valid, df_filtered,
                   account_total_periods_by_lottery, account_record_stats_by_lottery>>

(***************************************************************************)
(* Inputs and specification.                                               *)
(***************************************************************************)
Row(a, l, p, d, m) == [account |-> a, lottery |-> l, period |-> p, direction |-> d, amount |-> m]

RowsOf(accounts, lotteries, periods, directions, amounts) ==
    {Row(a, l, p, d, m) : a \in accounts, l \in lotteries, p \in periods,
                          d \in directions, m \in amounts}

SeqsUpTo(S, n) == UNION {[1..k -> S] : k \in 0..n}

\* two accounts with a betting history over several periods of one lottery;
\* amount 0 is a row the processing drops
HistoryBatches ==
    SeqsUpTo(RowsOf({1}, {1}, {1, 2, 3}, {Base("Big")}, {5})
             \cup RowsOf({2}, {1}, {1, 2, 3}, {Base("Small")}, {0, 5}), MaxRows)

\* two accounts over the directions of two opposite pairs, two periods
DirectionBatches ==
    SeqsUpTo(RowsOf({1, 2}, {1}, {1, 2}, {Base("Big"), Base("Small"), Base("Odd"), NoDirection},
                    {5}), MaxRoundRows)

\* three accounts in one period with amounts around the thresholds
AmountBatches ==
    SeqsUpTo(RowsOf({1, 2}, {1}, {1}, {Base("Big"), Base("Small")}, {2, 4, 5})
             \cup RowsOf({3}, {1}, {1}, {Base("Small")}, {4}), MaxRoundRows)

\* two lotteries sharing their period numbers
LotteryBatches ==
    SeqsUpTo(RowsOf({1}, {1, 2}, {1, 2}, {Base("Big"), Base("Small")}, {5})
             \cup RowsOf({2}, {1, 2}, {1, 2}, {Base("Small")}, {5}), MaxRoundRows)

Batches == HistoryBatches \cup DirectionBatches \cup AmountBatches \cup LotteryBatches

\* the processing of an uploaded batch
Process == pc = "start" /\ \E batch \in Batches : ProcessBatch(batch)

\* WashTradeDetector.__init__
Init ==
    /\ config = TunedConfig
    /\ set_order \in {"declared", "reversed"}
    /\ df_clean = <<>>
    /\ data_processed = FALSE
    /\ df_valid = <<>>
    /\ account_total_periods_by_lottery = <<>>
    /\ account_record_stats_by_lottery = <<>>
    /\ pc = "start"
    /\ df_filtered = <<>>
    /\ account_count = 0
    /\ wash_records = <<>>
    /\ all_patterns = <<>>

Next == Process \/ DetectEnter \/ DetectN

Spec == Init /\ [][Next]_vars

(***************************************************************************)
(* The aggregator as a function of the statistics table and of a list of   *)
(* candidates, under the default configuration.  The batch behind such a   *)
(* table has more rows than the batches above and is not represented.      *)
(***************************************************************************)
MaxCandidates == 4

\* a two-account candidate on Big/Small, as GroupCandidate builds it
Candidate(period, accounts, amounts) ==
    LET lo == Min(Range(amounts))
        hi == Max(Range(amounts))
    IN  [ period |-> period,
          lottery |-> 1,
          accounts |-> accounts,
          directions |-> <<Base("Big"), Base("Small")>>,
          amounts |-> amounts,
          total_amount |-> amounts[1] + amounts[2],
          similarity |-> Ratio(lo, hi),
          n_accounts |-> 2,
          opposite_type |-> TypeText(FALSE, Base("Big"), Base("Small")) ]

AggCandidates ==
    {Candidate(p, <<1, 2>>, <<5, 5>>) : p \in {1, 2, 3, 4}}
    \cup {Candidate(p, <<2, 1>>, <<4, 5>>) : p \in {1, 2, 3, 4}}
    \cup {Candidate(p, <<1, 3>>, <<5, 5>>) : p \in {1, 2, 3, 4}}

\* total_rounds of accounts 1, 2, 3 in lottery 1
AggTables ==
    { (1 :> ((1 :> 5) @@ (2 :> 5) @@ (3 :> 5))),
      (1 :> ((1 :> 11) @@ (2 :> 50) @@ (3 :> 300))) }

\* a list the generator can have collected, in any order: every group passed
\* the period difference check and no (period, lottery, account set) repeats
Producible(records) ==
    /\ \A i \in DOMAIN records :
          CheckAccountPeriodDifference(records[i].accounts, records[i].lottery)
    /\ \A i, j \in DOMAIN records :
          (i # j /\ GroupKey(records[i]) = GroupKey(records[j]))
          => records[i].period # records[j].period

\* find_continuous_patterns_optimized(records)
Aggregate ==
    /\ pc = "aggregate"
    /\ \E records \in SeqsUpTo(AggCandidates, MaxCandidates) :
          /\ Producible(records)
          /\ wash_records' = records
          /\ all_patterns' = find_continuous_patterns_optimized(records)
    /\ pc' = "done"
    /\ UNCHANGED <<config, set_order, df_clean, data_processed, df_valid, df_filtered,
                   account_count, account_total_periods_by_lottery,
                   account_record_stats_by_lottery>>

InitAgg ==
    /\ config = Config
    /\ set_order = "declared"
    /\ df_clean = <<>>
    /\ data_processed = TRUE
    /\ df_valid = <<>>
    /\ account_total_periods_by_lottery \in AggTables
    /\ account_record_stats_by_lottery = account_total_periods_by_lottery
    /\ pc = "aggregate"
    /\ df_filtered = <<>>
    /\ account_count = 2
    /\ wash_records = <<>>
    /\ all_patterns = <<>>

NextAgg == Aggregate

SpecAgg == InitAgg /\ [][NextAgg]_vars

(***************************************************************************)
(* Properties.                                                             *)
(***************************************************************************)
\* total_rounds of an account in the statistics table, when it has an entry
HasStats(account, lottery) ==
    /\ lottery \in DOMAIN account_total_periods_by_lottery
    /\ account \in DOMAIN account_total_periods_by_lottery[lottery]

TotalRounds(account, lottery) == account_total_periods_by_lottery[lottery][account]

\* wash_records holds the candidates of the pass for group size k
PassDone(k) ==
    \/ pc = "detecting" /\ account_count = k + 1
    \/ pc = "done" /\ data_processed /\ df_filtered # <<>> /\ k = config.max_accounts_in_group

\* the first bet of its account in its (period, lottery) partition
FirstBet(i) ==
    \A h \in DOMAIN df_filtered :
        (/\ df_filtered[h].period = df_filtered[i].period
         /\ df_filtered[h].lottery = df_filtered[i].lottery
         /\ df_filtered[h].account = df_filtered[i].account) => h >= i

\* two rows of the filtered records that are the first bets of two different
\* accounts in the same (period, lottery) partition
FirstBets(i, j) ==
    /\ df_filtered[i].period = df_filtered[j].period
    /\ df_filtered[i].lottery = df_filtered[j].lottery
    /\ df_filtered[i].account # df_filtered[j].account
    /\ FirstBet(i) /\ FirstBet(j)

\* the directions are the two sides of one configured opposite pair (at one position)
OnConfiguredPair(d1, d2) ==
    /\ d1[1] = d2[1]
    /\ \E g \in DOMAIN config.opposite_groups :
          {d1[2], d2[2]} = Range(config.opposite_groups[g])

\* C1: no emitted pattern has two members whose total_rounds in the pattern's
\* lottery differ by more than account_period_diff_threshold.
C1_DisparityExclusion ==
    \A k \in DOMAIN all_patterns :
        \A a, b \in Range(all_patterns[k].accounts) :
            (HasStats(a, all_patterns[k].lottery) /\ HasStats(b, all_patterns[k].lottery))
            => TotalRounds(a, all_patterns[k].lottery) - TotalRounds(b, all_patterns[k].lottery)
                  <= config.account_period_diff_threshold

\* C1 witness: detection has finished on records in which two accounts bet
\* equal amounts on Big and Small in the same period, while their total_rounds
\* differ by more than the threshold.
C1_Witness ==
    /\ pc = "done"
    /\ \E i, j \in DOMAIN df_filtered :
          /\ FirstBets(i, j)
          /\ OnConfiguredPair(df_filtered[i].direction, df_filtered[j].direction)
          /\ df_filtered[i].amount = df_filtered[j].amount
          /\ HasStats(df_filtered[i].account, df_filtered[i].lottery)
          /\ HasStats(df_filtered[j].account, df_filtered[i].lottery)
          /\ TotalRounds(df_filtered[i].account, df_filtered[i].lottery)
               - TotalRounds(df_filtered[j].account, df_filtered[i].lottery)
               > config.account_period_diff_threshold

\* C2: the directions of every emitted candidate are the two sides of one
\* configured opposite pair, with accounts on both sides.
C2_ConfiguredPairOnly ==
    \A k \in DOMAIN wash_records :
        \E g \in DOMAIN config.opposite_groups :
            \E position \in {d[1] : d \in Range(wash_records[k].directions)} :
                Range(wash_records[k].directions)
                    = {<<position, config.opposite_groups[g][1]>>,
                       <<position, config.opposite_groups[g][2]>>}

\* the threshold configured for group size k, in percent
ThresholdFor(k) ==
    IF k \in DOMAIN config.account_count_similarity_thresholds
      THEN config.account_count_similarity_thresholds[k]
      ELSE config.amount_similarity_threshold

\* C3: every emitted candidate has a similarity of at least the threshold of
\* its group size, and a two-account combination on a configured pair whose
\* similarity equals the threshold exactly is emitted.
C3_SimilarityThreshold ==
    /\ \A k \in DOMAIN wash_records :
          wash_records[k].similarity[1] * 100
              >= ThresholdFor(wash_records[k].n_accounts) * wash_records[k].similarity[2]
    /\ PassDone(2) =>
          \A i, j \in DOMAIN df_filtered :
              (/\ FirstBets(i, j)
               /\ OnConfiguredPair(df_filtered[i].direction, df_filtered[j].direction)
               /\ df_filtered[i].amount <= df_filtered[j].amount
               /\ df_filtered[i].amount * 100 = ThresholdFor(2) * df_filtered[j].amount
               /\ TotalRounds(df_filtered[i].account, df_filtered[i].lottery)
                    - TotalRounds(df_filtered[j].account, df_filtered[i].lottery)
                    \in -config.account_period_diff_threshold..config.account_period_diff_threshold)
              => \E k \in DOMAIN wash_records :
                    /\ wash_records[k].period = df_filtered[i].period
                    /\ wash_records[k].lottery = df_filtered[i].lottery
                    /\ Range(wash_records[k].accounts)
                         = {df_filtered[i].account, df_filtered[j].account}

\* C3 witness: a candidate whose similarity equals its threshold exactly was
\* emitted from records that also hold a combination below the threshold.
C3_Witness ==
    /\ PassDone(2)
    /\ \E k \in DOMAIN wash_records :
          wash_records[k].similarity[1] * 100
              = ThresholdFor(2) * wash_records[k].similarity[2]
    /\ \E i, j \in DOMAIN df_filtered :
          /\ FirstBets(i, j)
          /\ OnConfiguredPair(df_filtered[i].direction, df_filtered[j].direction)
          /\ df_filtered[i].amount * 100 < ThresholdFor(2) * df_filtered[j].amount

\* the required minimum of a group, from the breakpoints of the configuration
RequiredMinimum(account_group, lottery) ==
    LET t == config.period_thresholds
        least == Min({IF HasStats(account_group[i], lottery)
                        THEN TotalRounds(account_group[i], lottery) ELSE 0 :
                      i \in DOMAIN account_group})
    IN  IF lottery \notin DOMAIN account_total_periods_by_lottery THEN t.min_periods_very_high
        ELSE IF least <= t.low_activity THEN t.min_periods_low
        ELSE IF least <= t.medium_activity_high THEN t.min_periods_medium
        ELSE IF least <= t.high_activity_high THEN t.min_periods_high
        ELSE t.min_periods_very_high

\* the positions in all_patterns of the patterns of one group key
PatternsOf(key) ==
    {k \in DOMAIN all_patterns :
        all_patterns[k].accounts = key[1] /\ all_patterns[k].lottery = key[2]}

\* C4: a group of candidates yields a pattern if and only if its number of
\* records reaches the required minimum of its activity tier; the pattern is
\* then unique and counts all the records of the group.
C4_AdmissionIffMinimum ==
    pc = "done" =>
        /\ \A i \in DOMAIN wash_records :
              LET key == GroupKey(wash_records[i])
                  count == Cardinality({j \in DOMAIN wash_records :
                                           GroupKey(wash_records[j]) = key})
              IN  IF count >= RequiredMinimum(key[1], key[2])
                    THEN /\ Cardinality(PatternsOf(key)) = 1
                         /\ \A k \in PatternsOf(key) : all_patterns[k].periods = count
                    ELSE PatternsOf(key) = {}
        /\ \A k \in DOMAIN all_patterns :
              \E i \in DOMAIN wash_records :
                  GroupKey(wash_records[i])
                      = <<all_patterns[k].accounts, all_patterns[k].lottery>>

\* C4 witness: four perfectly matching rounds under a requirement of three
\* give a pattern of four rounds with mean similarity 1, while another group
\* below its minimum gives none.
C4_Witness ==
    /\ pc = "done"
    /\ \E k \in DOMAIN all_patterns :
          /\ all_patterns[k].periods = 4
          /\ all_patterns[k].required_min_periods = 3
          /\ all_patterns[k].avg_similarity = <<1, 1>>
    /\ Len(all_patterns) = 1
    /\ Cardinality({GroupKey(wash_records[i]) : i \in DOMAIN wash_records}) = 1

\* C5: no account set has two candidates in one (period, lottery), and the
\* detail records of a pattern are of pairwise different periods.
C5_NoDoubleCounting ==
    /\ \A i, j \in DOMAIN wash_records :
          (/\ i # j
           /\ wash_records[i].period = wash_records[j].period
           /\ wash_records[i].lottery = wash_records[j].lottery)
          => Range(wash_records[i].accounts) # Range(wash_records[j].accounts)
    /\ \A k \in DOMAIN all_patterns :
          /\ all_patterns[k].periods = Len(all_patterns[k].details)
          /\ all_patterns[k].periods
               = Cardinality({all_patterns[k].details[i].period :
                                 i \in DOMAIN all_patterns[k].details})

\* C5 witness: a pattern was emitted from a partition in which an account of
\* the group has more than one record.
C5_Witness ==
    \E k \in DOMAIN all_patterns :
        \E d \in DOMAIN all_patterns[k].details :
            LET r == all_patterns[k].details[d]
            IN  Cardinality({i \in DOMAIN df_filtered :
                                /\ df_filtered[i].period = r.period
                                /\ df_filtered[i].lottery = r.lottery
                                /\ df_filtered[i].account \in Range(r.accounts)})
                    > Len(r.accounts)

\* C6: three accounts of one partition that split 2-vs-1 on a configured
\* opposite pair, with side totals meeting the 3-account threshold and
\* total_rounds within the period difference threshold, have a 3-account
\* candidate after the pass for group size 3.
C6_ThreeAccountCandidate ==
    PassDone(3) =>
        \A h, i, j \in DOMAIN df_filtered :
            (/\ FirstBets(h, i) /\ FirstBets(h, j) /\ FirstBets(i, j)
             /\ df_filtered[h].direction = df_filtered[i].direction
             /\ OnConfiguredPair(df_filtered[h].direction, df_filtered[j].direction)
             /\ LET two == df_filtered[h].amount + df_filtered[i].amount
                    one == df_filtered[j].amount
                IN  /\ Min({two, one}) * 100 >= ThresholdFor(3) * Max({two, one})
             /\ \A a, b \in {h, i, j} :
                   TotalRounds(df_filtered[a].account, df_filtered[a].lottery)
                     - TotalRounds(df_filtered[b].account, df_filtered[b].lottery)
                     <= config.account_period_diff_threshold)
            => \E k \in DOMAIN wash_records :
                  /\ wash_records[k].n_accounts = 3
                  /\ wash_records[k].period = df_filtered[h].period
                  /\ wash_records[k].lottery = df_filtered[h].lottery
                  /\ Range(wash_records[k].accounts)
                       = {df_filtered[h].account, df_filtered[i].account, df_filtered[j].account}

\* the total of the amounts a candidate records on one direction
SideTotal(r, d) ==
    SumSeq([i \in DOMAIN r.amounts |-> IF r.directions[i] = d THEN r.amounts[i] ELSE 0])

\* C7: every candidate has accounts on exactly two directions, both side
\* totals positive, similarity = min / max of the side totals, 0 < similarity
\* <= 1, and similarity = 1 exactly when the side totals are equal.
C7_SimilarityBounds ==
    \A k \in DOMAIN wash_records :
        LET r == wash_records[k]
            totals == {SideTotal(r, d) : d \in Range(r.directions)}
        IN  /\ Cardinality(Range(r.directions)) = 2
            /\ Min(totals) > 0
            /\ r.similarity[2] > 0
            /\ r.similarity[1] * Max(totals) = r.similarity[2] * Min(totals)
            /\ 0 < r.similarity[1] /\ r.similarity[1] <= r.similarity[2]
            /\ (r.similarity = <<1, 1>>) <=> (Min(totals) = Max(totals))

\* C7 witness: one pass emitted a candidate of similarity 1 and a candidate of
\* similarity below 1.
C7_Witness ==
    /\ \E k \in DOMAIN wash_records : wash_records[k].similarity = <<1, 1>>
    /\ \E k \in DOMAIN wash_records : wash_records[k].similarity[1] < wash_records[k].similarity[2]

\* the rows i and i + 1 of a sequence exchanged
Swap(s, i) ==
    [k \in DOMAIN s |-> IF k = i THEN s[i + 1] ELSE IF k = i + 1 THEN s[i] ELSE s[k]]

\* all the records of the (period, account) pair of row i have its direction
SingleDirection(df, i) ==
    \A j \in DOMAIN df :
        (df[j].period = df[i].period /\ df[j].account = df[i].account)
        => df[j].direction = df[i].direction

\* the filter has run on df_valid
Filtered == pc \in {"detecting", "done"} /\ data_processed

\* C8: the filtered records are the records of df_valid whose (period,
\* account) pair has a single direction, in their order, and exchanging two
\* neighbouring input records does not change the result as a multiset.
C8_SingleDirectionFilter ==
    Filtered =>
        /\ \E keep \in SUBSET DOMAIN df_valid :
              /\ keep = {i \in DOMAIN df_valid : SingleDirection(df_valid, i)}
              /\ Len(df_filtered) = Cardinality(keep)
              /\ \A i \in keep :
                    df_filtered[Cardinality({h \in keep : h <= i})] = df_valid[i]
        /\ \A i \in 1..(Len(df_valid) - 1) :
              SameSorted(exclude_multi_direction_accounts(Swap(df_valid, i)), df_filtered)

\* C8 witness: the filter removed the records of a pair with two directions
\* and kept the records of another pair.
C8_Witness ==
    /\ Filtered
    /\ df_filtered # <<>>
    /\ Len(df_filtered) < Len(df_valid)

\* the normalized records of the processed batch
NormalizedRecords ==
    SelectSeq(df_clean, LAMBDA r : r.direction # NoDirection /\ r.amount >= config.min_amount)

\* C9: after processing, the statistics tables are keyed by the (lottery,
\* account) pairs of the normalized records, total_rounds is the number of
\* their distinct periods and total_records their number.
C9_StatsFromNormalizedRecords ==
    pc # "start" =>
        LET nr == NormalizedRecords
            rows(l, a) == {i \in DOMAIN nr : nr[i].lottery = l /\ nr[i].account = a}
        IN  /\ DOMAIN account_total_periods_by_lottery = {nr[i].lottery : i \in DOMAIN nr}
            /\ DOMAIN account_record_stats_by_lottery = {nr[i].lottery : i \in DOMAIN nr}
            /\ \A l \in DOMAIN account_total_periods_by_lottery :
                  /\ DOMAIN account_total_periods_by_lottery[l]
                       = {nr[i].account : i \in {j \in DOMAIN nr : nr[j].lottery = l}}
                  /\ \A a \in DOMAIN account_total_periods_by_lottery[l] :
                        /\ account_total_periods_by_lottery[l][a]
                             = Cardinality({nr[i].period : i \in rows(l, a)})
                        /\ account_record_stats_by_lottery[l][a] = Cardinality(rows(l, a))

\* C10: the detail records of every pattern are in ascending order of period.
C10_DetailsAscending ==
    \A k \in DOMAIN all_patterns :
        \A i, j \in DOMAIN all_patterns[k].details :
            i < j => all_patterns[k].details[i].period <= all_patterns[k].details[j].period

\* C10 witness: a pattern was emitted for a group whose candidates were
\* collected out of period order.
C10_Witness ==
    \E k \in DOMAIN all_patterns :
        \E i, j \in DOMAIN wash_records :
            /\ i < j
            /\ GroupKey(wash_records[i]) = <<all_patterns[k].accounts, all_patterns[k].lottery>>
            /\ GroupKey(wash_records[j]) = GroupKey(wash_records[i])
            /\ wash_records[i].period > wash_records[j].period

\* the label "d1-d2" of a configured pair written in its declaration order
DeclaredLabel(g) ==
    TypeText(FALSE, Base(config.opposite_groups[g][1]), Base(config.opposite_groups[g][2]))

\* C11: the output of a run is a function of the records and the
\* configuration alone: the opposite-pair label of every candidate on a
\* configured pair is the one the declaration order of the pair gives,
\* whatever the iteration order of the unordered opposite-pair sets.
C11_LabelIndependentOfSetOrder ==
    \A k \in DOMAIN wash_records :
        \A g \in DOMAIN config.opposite_groups :
            Range(wash_records[k].directions)
                = {Base(config.opposite_groups[g][1]), Base(config.opposite_groups[g][2])}
            => wash_records[k].opposite_type = DeclaredLabel(g)

\* a row of the batch that violates the input contract: no direction, or an
\* amount below the configured minimum
ViolatesContract(row) == row.direction = NoDirection \/ row.amount < config.min_amount

\* C12: a batch holding a record that violates the input contract makes the
\* run fail: no records are handed to detection and no pattern is produced
\* from the rest of the batch.
C12_FailFastOnBadRecord ==
    (\E i \in DOMAIN df_clean : ViolatesContract(df_clean[i]))
    => (Len(df_valid) = 0 /\ all_patterns = <<>>)

(***************************************************************************)
(* The detector constructed with a configuration of the caller's choice    *)
(* (WashTradeDetector(config)): the tuned configuration and three          *)
(* variations of it.                                                       *)
(***************************************************************************)
MaxConfigRows == 3

\* an opposite group of three directions in place of the first pair
TripleGroupConfig ==
    [TunedConfig EXCEPT !.opposite_groups = << <<"Big", "Small", "Odd">>, <<"Dragon", "Tiger">> >>]

\* a threshold for three accounts below the one for two accounts
DecreasingThresholdConfig ==
    [TunedConfig EXCEPT
        !.account_count_similarity_thresholds = (2 :> 90) @@ (3 :> 80) @@ (4 :> 90) @@ (5 :> 95)]

\* a negative period-difference threshold
NegativeDiffConfig == [TunedConfig EXCEPT !.account_period_diff_threshold = 0 - 1]

Configs == {TunedConfig, TripleGroupConfig, DecreasingThresholdConfig, NegativeDiffConfig}

\* two accounts over one opposite pair in one period, amounts 4 and 5
ConfigBatches ==
    SeqsUpTo(RowsOf({1, 2}, {1}, {1}, {Base("Big"), Base("Small")}, {4, 5}), MaxConfigRows)

ProcessConfigured == pc = "start" /\ \E batch \in ConfigBatches : ProcessBatch(batch)

\* WashTradeDetector.__init__(config)
InitConfigured ==
    /\ config \in Configs
    /\ set_order \in {"declared", "reversed"}
    /\ df_clean = <<>>
    /\ data_processed = FALSE
    /\ df_valid = <<>>
    /\ account_total_periods_by_lottery = <<>>
    /\ account_record_stats_by_lottery = <<>>
    /\ pc = "start"
    /\ df_filtered = <<>>
    /\ account_count = 0
    /\ wash_records = <<>>
    /\ all_patterns = <<>>

NextConfigured == ProcessConfigured \/ DetectEnter \/ DetectN

SpecConfigured == InitConfigured /\ [][NextConfigured]_vars

\* a configuration the engine accepts: every opposite group has two members,
\* the similarity thresholds do not decrease with the group size and the
\* period-difference threshold is not negative
WellFormed(c) ==
    /\ \A g \in DOMAIN c.opposite_groups : Len(c.opposite_groups[g]) = 2
    /\ \A j, k \in DOMAIN c.account_count_similarity_thresholds :
          j <= k => c.account_count_similarity_thresholds[j]
                        <= c.account_count_similarity_thresholds[k]
    /\ c.account_period_diff_threshold >= 0

\* C13: under a malformed configuration no record is processed and detection
\* neither runs nor emits: data_processed stays false, nothing is handed to
\* detection, no candidate and no pattern exists.
C13_MalformedConfigRejected ==
    ~WellFormed(config)
    => (~data_processed /\ Len(df_valid) = 0 /\ wash_records = <<>> /\ all_patterns = <<>>)

\* the number of candidates of wash_records in the group of candidate i
GroupCount(i) ==
    Cardinality({j \in DOMAIN wash_records : GroupKey(wash_records[j]) = GroupKey(wash_records[i])})

\* C14: an empty outcome is an empty sequence of patterns, reached by a
\* normal return: the aggregator maps the empty list to the empty list, and
\* detection returns the empty sequence when nothing was processed, when the
\* single-direction filter leaves nothing, and when no group of candidates
\* reaches its required minimum.
C14_EmptyResult ==
    /\ find_continuous_patterns_optimized(<<>>) = <<>>
    /\ (pc = "done" /\ (~data_processed \/ Len(df_valid) = 0)) => all_patterns = <<>>
    /\ (pc = "done" /\ data_processed /\ Len(df_valid) > 0 /\ Len(df_filtered) = 0)
           => all_patterns = <<>>
    /\ (PassDone(2) /\ \A i \in DOMAIN wash_records :
                          GroupCount(i) < RequiredMinimum(wash_records[i].accounts,
                                                          wash_records[i].lottery))
           => all_patterns = <<>>

\* C14 witness: the two-account pass collected candidates and no group of
\* them reached its minimum, so no pattern was returned.
C14_Witness ==
    /\ PassDone(2)
    /\ wash_records # <<>>
    /\ all_patterns = <<>>

\* values of a similarity threshold, in percent
ThresholdValues == {80, 85, 90, 95, 100}

\* C15: for a fixed group size and fixed filtered records, the candidates
\* admitted under a threshold are among those admitted under any lower
\* threshold, and the candidates of the pass are those admitted under the
\* configured threshold.
C15_MonotoneAdmission ==
    \A k \in 2..config.max_accounts_in_group :
        PassDone(k) =>
            /\ wash_records = CollectWashRecordsAt(df_filtered, k, SimilarityThreshold(k))
            /\ \A t1, t2 \in ThresholdValues :
                  t1 <= t2 => Range(CollectWashRecordsAt(df_filtered, k, t2))
                                  \subseteq Range(CollectWashRecordsAt(df_filtered, k, t1))

\* C15 witness: the two-account pass admitted a candidate of similarity 4/5
\* under the threshold 80 that the threshold 85 does not admit.
C15_Witness ==
    /\ PassDone(2)
    /\ SimilarityThreshold(2) = 80
    /\ \E i \in DOMAIN wash_records :
          /\ wash_records[i].similarity = <<4, 5>>
          /\ wash_records[i] \notin Range(CollectWashRecordsAt(df_filtered, 2, 85))

(***************************************************************************)
(* The processing alone, on batches of one account whose amount texts are  *)
(* integers of either sign, under the tuned and the default configuration. *)
(***************************************************************************)
MaxAmountRows == 2

AmountTexts == {0 - 12, 0 - 5, 0, 5, 12}

SignedBatches ==
    SeqsUpTo(RowsOf({1}, {1}, {1, 2}, {Base("Big"), NoDirection}, AmountTexts), MaxAmountRows)

ProcessSigned == pc = "start" /\ \E batch \in SignedBatches : ProcessBatch(batch)

InitSigned ==
    /\ config \in {TunedConfig, Config}
    /\ set_order \in {"declared", "reversed"}
    /\ df_clean = <<>>
    /\ data_processed = FALSE
    /\ df_valid = <<>>
    /\ account_total_periods_by_lottery = <<>>
    /\ account_record_stats_by_lottery = <<>>
    /\ pc = "start"
    /\ df_filtered = <<>>
    /\ account_count = 0
    /\ wash_records = <<>>
    /\ all_patterns = <<>>

NextSigned == ProcessSigned

SpecSigned == InitSigned /\ [][NextSigned]_vars

\* C16: after a successful processing every record handed to detection has
\* a direction and an amount of at least min_amount, and it is a row of the
\* batch with its extracted amount; extract_bet_amount_safe gives 0 or a
\* value of at least min_amount.
C16_ValidRecords ==
    /\ \A a \in AmountTexts :
          extract_bet_amount_safe(a) = 0 \/ extract_bet_amount_safe(a) >= config.min_amount
    /\ data_processed =>
          /\ df_valid # <<>>
          /\ \A i \in DOMAIN df_valid :
                /\ df_valid[i].direction # NoDirection
                /\ df_valid[i].amount >= config.min_amount
                /\ \E j \in DOMAIN df_clean :
                      df_valid[i] = [df_clean[j] EXCEPT !.amount = extract_bet_amount_safe(@)]

\* C16 witness: a batch with a row below the minimum or without direction
\* was processed, and a negative amount text was kept with its sign dropped.
C16_Witness ==
    /\ data_processed
    /\ Len(df_valid) < Len(df_clean)
    /\ \E j \in DOMAIN df_clean :
          /\ df_clean[j].amount < 0
          /\ [df_clean[j] EXCEPT !.amount = 0 - @] \in Range(df_valid)

\* the sum of the amounts of all the filtered records of the accounts of
\* candidate r in its round with direction d
RoundTotal(r, d) ==
    SumSeq([i \in DOMAIN df_filtered |->
               IF /\ df_filtered[i].period = r.period
                  /\ df_filtered[i].lottery = r.lottery
                  /\ df_filtered[i].account \in Range(r.accounts)
                  /\ df_filtered[i].direction = d
                 THEN df_filtered[i].amount ELSE 0])

\* C17: the side totals of every candidate are the sums over all the records
\* of its accounts in its round, per direction; both are positive and the
\* recorded total amount is their sum.
C17_SideTotalsOverAllRecords ==
    \A k \in 2..config.max_accounts_in_group :
        PassDone(k) =>
            \A i \in DOMAIN wash_records :
                LET r == wash_records[i]
                IN  /\ \A d \in Range(r.directions) :
                          SideTotal(r, d) = RoundTotal(r, d) /\ RoundTotal(r, d) > 0
                    /\ r.total_amount = SumSeq([j \in DOMAIN r.directions |->
                                                   IF \E h \in 1..(j - 1) :
                                                          r.directions[h] = r.directions[j]
                                                     THEN 0 ELSE RoundTotal(r, r.directions[j])])

(***************************************************************************)
(* The aggregator on a run of consecutive rounds of one pair of accounts,  *)
(* under the default configuration, for statistics tables around the       *)
(* activity breakpoints.                                                   *)
(***************************************************************************)
MaxRunLength == 12

\* total_rounds around the breakpoints of period_thresholds
RoundTotals == {1, 10, 11, 50, 51, 100, 101}

\* tables of lottery 1 for accounts 1 and 2, for account 1 alone, and the
\* table without the lottery
RunTables ==
    {(1 :> ((1 :> a) @@ (2 :> b))) : a \in RoundTotals, b \in RoundTotals}
    \cup {(1 :> (1 :> a)) : a \in RoundTotals}
    \cup {<<>>}

\* the candidates of accounts 1 and 2 in the rounds 1..n
RunRecords(n) == [p \in 1..n |-> Candidate(p, <<1, 2>>, <<5, 5>>)]

\* find_continuous_patterns_optimized on the candidates of rounds 1..n
AggregateRun ==
    /\ pc = "aggregate"
    /\ \E records \in {r \in {RunRecords(n) : n \in 0..MaxRunLength} : Producible(r)} :
          /\ wash_records' = records
          /\ all_patterns' = find_continuous_patterns_optimized(records)
    /\ pc' = "done"
    /\ UNCHANGED <<config, set_order, df_clean, data_processed, df_valid, df_filtered,
                   account_count, account_total_periods_by_lottery,
                   account_record_stats_by_lottery>>

InitRun ==
    /\ config = Config
    /\ set_order = "declared"
    /\ df_clean = <<>>
    /\ data_processed = TRUE
    /\ df_valid = <<>>
    /\ account_total_periods_by_lottery \in RunTables
    /\ account_record_stats_by_lottery = account_total_periods_by_lottery
    /\ pc = "aggregate"
    /\ df_filtered = <<>>
    /\ account_count = 2
    /\ wash_records = <<>>
    /\ all_patterns = <<>>

NextRun == AggregateRun

SpecRun == InitRun /\ [][NextRun]_vars

\* the least total_rounds among the members of a group in a lottery of the table
LeastRounds(account_group, lottery) ==
    Min({TotalRounds(account_group[i], lottery) : i \in DOMAIN account_group})

\* C18: for a group whose members all have statistics in the lottery, the
\* tier follows the least total_rounds among them: at most 10 low, 11..50
\* medium, 51..100 high, above 100 very_high, and the group gets a pattern
\* exactly from 3, 5, 8 and 11 qualifying rounds respectively.
C18_TierBoundaries ==
    (/\ pc = "done"
     /\ HasStats(1, 1) /\ HasStats(2, 1))
    => LET least == LeastRounds(<<1, 2>>, 1)
           tier == IF least <= 10 THEN "low"
                   ELSE IF least <= 50 THEN "medium"
                   ELSE IF least <= 100 THEN "high" ELSE "very_high"
           required == IF least <= 10 THEN 3
                       ELSE IF least <= 50 THEN 5
                       ELSE IF least <= 100 THEN 8 ELSE 11
       IN  /\ get_account_group_activity_level(<<1, 2>>, 1) = tier
           /\ get_required_min_periods(<<1, 2>>, 1) = required
           /\ (all_patterns # <<>>) <=> (Len(wash_records) >= required)
           /\ \A k \in DOMAIN all_patterns :
                 /\ all_patterns[k].activity_level = tier
                 /\ all_patterns[k].required_min_periods = required

\* C18 witness: a group whose least active member has exactly 50 total
\* rounds is admitted as medium with exactly 5 qualifying rounds.
C18_Witness ==
    /\ pc = "done"
    /\ HasStats(1, 1) /\ HasStats(2, 1)
    /\ LeastRounds(<<1, 2>>, 1) = 50
    /\ Len(wash_records) = 5
    /\ \E k \in DOMAIN all_patterns :
          all_patterns[k].activity_level = "medium" /\ all_patterns[k].periods = 5

\* the groups over accounts 1 and 2 whose members all have statistics in lottery 1
RankedGroups ==
    {g \in {<<1>>, <<2>>, <<1, 2>>, <<2, 1>>} : \A i \in DOMAIN g : HasStats(g[i], 1)}

\* C19: between two groups of one lottery, the group whose least active
\* member has no more total_rounds never has the larger required minimum.
C19_RequirementMonotone ==
    \A A, B \in RankedGroups :
        LeastRounds(A, 1) <= LeastRounds(B, 1)
        => get_required_min_periods(A, 1) <= get_required_min_periods(B, 1)

\* C19 witness: after an aggregation, account 1 alone is in a lower tier
\* than account 2 alone and has the smaller requirement, which is also the
\* requirement recorded in the pattern of the pair.
C19_Witness ==
    /\ pc = "done"
    /\ {<<1>>, <<2>>} \subseteq RankedGroups
    /\ LeastRounds(<<1>>, 1) < LeastRounds(<<2>>, 1)
    /\ get_required_min_periods(<<1>>, 1) < get_required_min_periods(<<2>>, 1)
    /\ \E k \in DOMAIN all_patterns :
          all_patterns[k].required_min_periods = get_required_min_periods(<<1>>, 1)

\* the statistics tables are those computed from the processed batch
StatsComputed ==
    /\ account_total_periods_by_lottery = TotalPeriodsTable(df_clean)
    /\ account_record_stats_by_lottery = RecordStatsTable(df_clean)

C21_DetectionReadOnly ==
    [][pc' \in {"detecting", "done"}
       => UNCHANGED <<account_total_periods_by_lottery, account_record_stats_by_lottery,
                      df_valid, config>>]_vars

\* C21 witness: detection ran to its end on records of which the filter
\* removed some, and the records handed to detection and the tables of the
\* batch are still in place.
C21_Witness ==
    /\ pc = "done"
    /\ account_count = config.max_accounts_in_group
    /\ Len(df_filtered) > 0
    /\ Len(df_filtered) < Len(df_valid)
    /\ StatsComputed

(***************************************************************************)
(* Several processing runs on one detector: after detect_all_wash_trades   *)
(* has returned, the caller may hand the next batch to the same detector.  *)
(***************************************************************************)
MaxRerunPeriods == 3

\* the rows of one account in the periods 1..n of one lottery
AccountRows(a, n, l, d, m) == [p \in 1..n |-> Row(a, l, p, d, m)]

\* account 1 on Big against accounts 2 and 3 on Small, every row with the
\* same amount text: 5 is kept by the processing, 0 is dropped
RerunBatch(n1, n2, n3, l, m) ==
    AccountRows(1, n1, l, Base("Big"), m)
    \o AccountRows(2, n2, l, Base("Small"), m)
    \o AccountRows(3, n3, l, Base("Small"), m)

RerunBatches ==
    {RerunBatch(n1, n2, n3, l, m) :
        n1 \in 1..MaxRerunPeriods, n2 \in {0, 1, 2}, n3 \in {0, 1}, l \in {1, 2}, m \in {0, 5}}

ProcessRerun == pc = "start" /\ \E batch \in RerunBatches : ProcessBatch(batch)

\* detect_all_wash_trades returns: its locals are gone and the caller is
\* back where it can process a batch or call detection again
DetectReturn ==
    /\ pc = "done"
    /\ pc' = "start"
    /\ df_filtered' = <<>>
    /\ account_count' = 0
    /\ wash_records' = <<>>
    /\ all_patterns' = <<>>
    /\ UNCHANGED <<config, set_order, df_clean, data_processed, df_valid,
                   account_total_periods_by_lottery, account_record_stats_by_lottery>>

InitRerun ==
    /\ config = TunedConfig
    /\ set_order = "declared"
    /\ df_clean = <<>>
    /\ data_processed = FALSE
    /\ df_valid = <<>>
    /\ account_total_periods_by_lottery = <<>>
    /\ account_record_stats_by_lottery = <<>>
    /\ pc = "start"
    /\ df_filtered = <<>>
    /\ account_count = 0
    /\ wash_records = <<>>
    /\ all_patterns = <<>>

NextRerun == ProcessRerun \/ DetectEnter \/ DetectN \/ DetectReturn

SpecRerun == InitRerun /\ [][NextRerun]_vars

\* the account groups of size k the generator forms from the filtered records,
\* each with the lottery of its partition
GroupsOfSize(k) ==
    UNION {{<<Combinations(PeriodAccounts(GetGroup(df_filtered, key)), k)[g], key[2]>> :
               g \in DOMAIN Combinations(PeriodAccounts(GetGroup(df_filtered, key)), k)} :
           key \in Range(PeriodKeys(df_filtered))}

\* the total_rounds of the members of a group that have statistics in the lottery
RoundsWithStats(account_group, lottery) ==
    [i \in {j \in DOMAIN account_group : HasStats(account_group[j], lottery)} |->
        TotalRounds(account_group[i], lottery)]

\* C22: the period-difference check passes a group without comparing only
\* when fewer than two of its members have statistics in the lottery; when
\* at least two have, the group passes exactly when the largest minus the
\* smallest total_rounds of those members is within the threshold, also
\* when another member has no statistics.
C22_DisparityOverMembersWithStats ==
    pc = "detecting" =>
        \A k \in 2..config.max_accounts_in_group :
            \A gl \in GroupsOfSize(k) :
                LET rounds == RoundsWithStats(gl[1], gl[2])
                IN  CheckAccountPeriodDifference(gl[1], gl[2])
                    = (IF Cardinality(DOMAIN rounds) < 2 THEN TRUE
                       ELSE Max(Range(rounds)) - Min(Range(rounds))
                                <= config.account_period_diff_threshold)

\* C28: whenever detect_all_wash_trades performs detection, the statistics
\* tables and df_valid derive from the same batch, and every (lottery,
\* account) occurring in df_valid has an entry in the statistics table, for
\* any sequence of processing runs on one detector.
C28_StatsAndRecordsOfOneBatch ==
    pc = "detecting" =>
        /\ account_total_periods_by_lottery = TotalPeriodsTable(df_clean)
        /\ account_record_stats_by_lottery = RecordStatsTable(df_clean)
        /\ df_valid = ValidRows(df_clean)
        /\ \A i \in DOMAIN df_valid : HasStats(df_valid[i].account, df_valid[i].lottery)

\* the positions in wash_records of the candidates of the group of pattern k
CandidatesOf(k) ==
    {i \in DOMAIN wash_records :
        GroupKey(wash_records[i]) = <<all_patterns[k].accounts, all_patterns[k].lottery>>}

\* the sum of the values of a function with a finite domain
RECURSIVE SumOver(_)
SumOver(f) ==
    IF DOMAIN f = {} THEN 0
    ELSE LET x == CHOOSE y \in DOMAIN f : TRUE
         IN  f[x] + SumOver([y \in DOMAIN f \ {x} |-> f[y]])

\* the product of the denominators of the similarities of all the candidates
RECURSIVE DenominatorProduct(_)
DenominatorProduct(i) ==
    IF i > Len(wash_records) THEN 1 ELSE wash_records[i].similarity[2] * DenominatorProduct(i + 1)

\* C23: in every emitted pattern the round count is the length of the detail
\* list and the number of candidates of the group, the total amount is the
\* sum of the candidates' total amounts, the mean similarity is the
\* arithmetic mean of the candidates' similarities, the counts of the label
\* distribution sum to the round count, and the recorded required minimum is
\* the one the admission test applied.
C23_PatternAggregates ==
    pc = "done" =>
        \A k \in DOMAIN all_patterns :
            LET p == all_patterns[k]
                group == CandidatesOf(k)
                n == Cardinality(group)
                common == DenominatorProduct(1)
            IN  /\ p.periods = Len(p.details)
                /\ p.periods = n
                /\ p.total_investment
                      = SumSeq([i \in DOMAIN wash_records |->
                                   IF i \in group THEN wash_records[i].total_amount ELSE 0])
                /\ p.avg_similarity[1] * n * common
                      = p.avg_similarity[2]
                        * SumSeq([i \in DOMAIN wash_records |->
                                     IF i \in group
                                       THEN wash_records[i].similarity[1]
                                            * (common \div wash_records[i].similarity[2])
                                       ELSE 0])
                /\ SumOver(p.opposite_type_counts) = p.periods
                /\ p.required_min_periods = RequiredMinimum(p.accounts, p.lottery)
                /\ p.periods >= p.required_min_periods

\* C23 witness: a pattern of three rounds, two of similarity 1 and one of
\* similarity 4/5, with total amount 29 and mean similarity 14/15.
C23_Witness ==
    /\ pc = "done"
    /\ \E k \in DOMAIN all_patterns :
          /\ all_patterns[k].periods = 3
          /\ all_patterns[k].total_investment = 29
          /\ all_patterns[k].avg_similarity = <<14, 15>>
          /\ all_patterns[k].required_min_periods = 3

\* The stages one pass of detect_n_account_patterns_optimized takes its
\* groups through, in the order the code reaches them; an event is
\* <<stage, group key>>.
\* _detect_combinations_for_period: the period-difference check of every
\* combination of every partition, before the combination is looked at
DisparityEvents(df, n_accounts) ==
    LET period_keys == PeriodKeys(df)
        RECURSIVE Batch(_)
        Batch(k) ==
            IF k > Len(period_keys) THEN <<>>
            ELSE LET period_data == GetGroup(df, period_keys[k])
                     period_accounts == PeriodAccounts(period_data)
                     groups == Combinations(period_accounts, n_accounts)
                 IN  (IF Len(period_accounts) < n_accounts THEN <<>>
                      ELSE [g \in DOMAIN groups |->
                               <<"DisparityChecked", <<SortedNat(groups[g]), period_keys[k][2]>> >>])
                     \o Batch(k + 1)
    IN  Batch(1)

\* find_continuous_patterns_optimized: the records are collected under their
\* group keys, then every group gets its required minimum, is tested against
\* it and is appended to the result or dropped
AggregationEvents(records) ==
    LET keys == Unique([i \in DOMAIN records |-> GroupKey(records[i])])
        group(k) == SelectSeq(records, LAMBDA r : GroupKey(r) = keys[k])
        RECURSIVE Emit(_)
        Emit(k) ==
            IF k > Len(keys) THEN <<>>
            ELSE << <<"TierClassified", keys[k]>>, <<"ThresholdTested", keys[k]>>,
                    <<(IF GroupPattern(keys[k], group(k)) # <<>> THEN "Accepted" ELSE "Rejected"),
                      keys[k]>> >>
                 \o Emit(k + 1)
    IN  [i \in DOMAIN records |-> <<"Collected", GroupKey(records[i])>>] \o Emit(1)

PassEvents(df, n_accounts) ==
    DisparityEvents(df, n_accounts) \o AggregationEvents(CollectWashRecords(df, n_accounts))

\* the positions of the events of one stage of one group in a list of events
StageOf(events, stage, key) == {i \in DOMAIN events : events[i] = <<stage, key>>}

\* every event of the first stage comes before every event of the second
Precedes(events, first, second, key) ==
    \A i \in StageOf(events, first, key) : \A j \in StageOf(events, second, key) : i < j

\* C24: every group of a pass goes through Collected, DisparityChecked,
\* TierClassified, ThresholdTested in this order and ends in exactly one of
\* Accepted and Rejected: the period-difference check comes after the
\* group's candidates are collected, and no group is classified, tested or
\* ended more than once.
C24_StageOrder ==
    pc = "detecting" =>
        LET events == PassEvents(df_filtered, account_count)
        IN  \A e \in Range(events) :
                LET key == e[2]
                    ends == StageOf(events, "Accepted", key) \cup StageOf(events, "Rejected", key)
                IN  /\ Precedes(events, "Collected", "DisparityChecked", key)
                    /\ Precedes(events, "DisparityChecked", "TierClassified", key)
                    /\ Precedes(events, "TierClassified", "ThresholdTested", key)
                    /\ \A i \in StageOf(events, "ThresholdTested", key) : \A j \in ends : i < j
                    /\ Cardinality(StageOf(events, "TierClassified", key)) <= 1
                    /\ Cardinality(StageOf(events, "ThresholdTested", key)) <= 1
                    /\ Cardinality(ends) <= 1
                    /\ StageOf(events, "Collected", key) # {} => Cardinality(ends) = 1

(***************************************************************************)
(* Position-qualified directions: two accounts in one period, at two       *)
(* positions of the list of _get_valid_direction_combinations and at a     *)
(* position outside it (和值, written SumValue).                            *)
(***************************************************************************)
MaxPositionRows == 2

PositionDirections ==
    { <<"Champion", "Big">>, <<"Champion", "Small">>, <<"RunnerUp", "Small">>,
      <<"SumValue", "Big">>, <<"SumValue", "Small">> }

PositionBatches == SeqsUpTo(RowsOf({1, 2}, {1}, {1}, PositionDirections, {5}), MaxPositionRows)

ProcessPosition == pc = "start" /\ \E batch \in PositionBatches : ProcessBatch(batch)

InitPosition ==
    /\ config = TunedConfig
    /\ set_order \in {"declared", "reversed"}
    /\ df_clean = <<>>
    /\ data_processed = FALSE
    /\ df_valid = <<>>
    /\ account_total_periods_by_lottery = <<>>
    /\ account_record_stats_by_lottery = <<>>
    /\ pc = "start"
    /\ df_filtered = <<>>
    /\ account_count = 0
    /\ wash_records = <<>>
    /\ all_patterns = <<>>

NextPosition == ProcessPosition \/ DetectEnter \/ DetectN

SpecPosition == InitPosition /\ [][NextPosition]_vars

MaxSliderRows == 2

\* positions of the slider of main, in percent
SliderValues == {50, 80, 100}

\* the table of Config, and the table without its entry for two accounts
ThresholdTables ==
    { Config.account_count_similarity_thresholds,
      (3 :> 85) @@ (4 :> 90) @@ (5 :> 95) }

SliderConfigs ==
    {[TunedConfig EXCEPT !.amount_similarity_threshold = s,
                         !.account_count_similarity_thresholds = t] :
        s \in SliderValues, t \in ThresholdTables}

\* two accounts over one opposite pair in one period, amounts 4 and 5
SliderBatches ==
    SeqsUpTo(RowsOf({1, 2}, {1}, {1}, {Base("Big"), Base("Small")}, {4, 5}), MaxSliderRows)

ProcessSlider == pc = "start" /\ \E batch \in SliderBatches : ProcessBatch(batch)

InitSlider ==
    /\ config \in SliderConfigs
    /\ set_order = "declared"
    /\ df_clean = <<>>
    /\ data_processed = FALSE
    /\ df_valid = <<>>
    /\ account_total_periods_by_lottery = <<>>
    /\ account_record_stats_by_lottery = <<>>
    /\ pc = "start"
    /\ df_filtered = <<>>
    /\ account_count = 0
    /\ wash_records = <<>>
    /\ all_patterns = <<>>

NextSlider == ProcessSlider \/ DetectEnter \/ DetectN

SpecSlider == InitSlider /\ [][NextSlider]_vars

\* C26: the threshold applied to a combination of k accounts is the entry
\* for k of account_count_similarity_thresholds when there is one and
\* amount_similarity_threshold only when there is none: a pair on a
\* configured opposite pair is admitted exactly when its similarity reaches
\* that value, so with an entry for two accounts the admitted pairs do not
\* depend on amount_similarity_threshold.
C26_TableBeforeBaseThreshold ==
    PassDone(2) =>
        LET table == config.account_count_similarity_thresholds
            applied == IF 2 \in DOMAIN table THEN table[2]
                       ELSE config.amount_similarity_threshold
        IN  \A i, j \in DOMAIN df_filtered :
                (/\ FirstBets(i, j)
                 /\ OnConfiguredPair(df_filtered[i].direction, df_filtered[j].direction)
                 /\ df_filtered[i].amount <= df_filtered[j].amount)
                => ((\E k \in DOMAIN wash_records :
                        Range(wash_records[k].accounts)
                            = {df_filtered[i].account, df_filtered[j].account})
                    <=> df_filtered[i].amount * 100 >= applied * df_filtered[j].amount)

\* C26 witness: with the entry 80 for two accounts and the base threshold at
\* 100, a pair of similarity 4/5 was admitted.
C26_Witness ==
    /\ PassDone(2)
    /\ 2 \in DOMAIN config.account_count_similarity_thresholds
    /\ config.account_count_similarity_thresholds[2] = 80
    /\ config.amount_similarity_threshold = 100
    /\ \E k \in DOMAIN wash_records : wash_records[k].similarity = <<4, 5>>

\* C27: when the statistics table has no entry for the lottery of a group,
\* its activity level is 'unknown', the period-difference check passes and
\* the required minimum is min_periods_very_high (11); when the lottery has
\* statistics and a member has none, the member counts as 0 rounds and the
\* group is low with required minimum 3.
C27_MissingStatistics ==
    pc = "done" =>
        /\ 1 \notin DOMAIN account_total_periods_by_lottery =>
              /\ get_account_group_activity_level(<<1, 2>>, 1) = "unknown"
              /\ CheckAccountPeriodDifference(<<1, 2>>, 1)
              /\ get_required_min_periods(<<1, 2>>, 1) = config.period_thresholds.min_periods_very_high
              /\ get_required_min_periods(<<1, 2>>, 1) = 11
              /\ (all_patterns # <<>>) <=> (Len(wash_records) >= 11)
              /\ \A k \in DOMAIN all_patterns :
                    /\ all_patterns[k].activity_level = "unknown"
                    /\ all_patterns[k].required_min_periods = 11
        /\ (1 \in DOMAIN account_total_periods_by_lottery /\ ~HasStats(2, 1)) =>
              /\ get_account_group_activity_level(<<1, 2>>, 1) = "low"
              /\ get_required_min_periods(<<1, 2>>, 1) = 3
              /\ (all_patterns # <<>>) <=> (Len(wash_records) >= 3)
              /\ \A k \in DOMAIN all_patterns :
                    /\ all_patterns[k].activity_level = "low"
                    /\ all_patterns[k].required_min_periods = 3

\* C27 witness: without statistics for the lottery, a run of exactly 11
\* rounds was admitted as a pattern of unknown activity.
C27_Witness ==
    /\ pc = "done"
    /\ 1 \notin DOMAIN account_total_periods_by_lottery
    /\ Len(wash_records) = 11
    /\ \E k \in DOMAIN all_patterns :
          /\ all_patterns[k].activity_level = "unknown"
          /\ all_patterns[k].required_min_periods = 11
          /\ all_patterns[k].periods = 11

(***************************************************************************)
(* upload_and_process as main calls it: an uploaded file is its name's     *)
(* extension and the rows its sheet holds.  df_clean records the rows      *)
(* clean_data read from the file (its local df_clean).                     *)
(***************************************************************************)
MaxUploadRows == 3

\* Config.supported_file_types
SupportedFileTypes == {".xlsx", ".xls", ".csv"}

\* Excel files and a text file, with rows of two accounts in one period
UploadedFiles ==
    [ext : {".xlsx", ".xls", ".txt"},
     rows : SeqsUpTo(RowsOf({1, 2}, {1}, {1}, {Base("Big"), Base("Small")}, {0, 5}),
                     MaxUploadRows)]

\* DataProcessor.clean_data: <<>> stands for None.  The try block reads and
\* renames the columns of df_clean and ends without a return statement, and
\* the except block returns None.
clean_data(uploaded_file) == <<>>

\* main: detector.upload_and_process(uploaded_file) and the branch on its result
UploadAndProcess ==
    /\ pc = "start"
    /\ \E uploaded_file \in UploadedFiles :
          IF uploaded_file.ext \notin SupportedFileTypes
            THEN /\ pc' = "failed"
                 /\ UNCHANGED <<df_clean, data_processed, df_valid,
                                account_total_periods_by_lottery,
                                account_record_stats_by_lottery>>
            ELSE LET cleaned == clean_data(uploaded_file)
                 IN  IF cleaned # <<>> /\ Len(cleaned[1]) > 0
                       THEN /\ df_clean' = cleaned[1]
                            /\ account_total_periods_by_lottery' = TotalPeriodsTable(cleaned[1])
                            /\ account_record_stats_by_lottery' = RecordStatsTable(cleaned[1])
                            /\ IF ValidRows(cleaned[1]) = <<>>
                                 THEN pc' = "failed" /\ UNCHANGED <<data_processed, df_valid>>
                                 ELSE /\ pc' = "processed"
                                      /\ data_processed' = TRUE
                                      /\ df_valid' = ValidRows(cleaned[1])
                       ELSE /\ pc' = "failed"
                            /\ df_clean' = uploaded_file.rows
                            /\ UNCHANGED <<data_processed, df_valid,
                                           account_total_periods_by_lottery,
                                           account_record_stats_by_lottery>>
    /\ UNCHANGED <<config, set_order, df_filtered, account_count, wash_records, all_patterns>>

InitUpload ==
    /\ config = TunedConfig
    /\ set_order = "declared"
    /\ df_clean = <<>>
    /\ data_processed = FALSE
    /\ df_valid = <<>>
    /\ account_total_periods_by_lottery = <<>>
    /\ account_record_stats_by_lottery = <<>>
    /\ pc = "start"
    /\ df_filtered = <<>>
    /\ account_count = 0
    /\ wash_records = <<>>
    /\ all_patterns = <<>>

NextUpload == UploadAndProcess

SpecUpload == InitUpload /\ [][NextUpload]_vars

\* C29: for an uploaded file with a supported extension whose rows hold
\* valid records, upload_and_process hands the cleaned rows to the
\* processing and returns the valid records with data_processed set, and
\* main does not take its 'data processing failed' branch.
C29_UploadReachesDetection ==
    (pc # "start" /\ ValidRows(df_clean) # <<>>)
    => /\ pc = "processed"
       /\ data_processed
       /\ df_valid = ValidRows(df_clean)

\* the key of a pattern: its sorted account set and its lottery
PatternKey(p) == <<SortedNat(p.accounts), p.lottery>>

\* C30: in the output of detect_all_wash_trades no two patterns have the
\* same (sorted account set, lottery) key, the patterns built in the pass
\* for group size k have exactly k accounts, and every detail record of a
\* pattern has the account set and the lottery of the pattern.
C30_UniqueKeysAndGroupSize ==
    /\ \A i, j \in DOMAIN all_patterns :
          i # j => PatternKey(all_patterns[i]) # PatternKey(all_patterns[j])
    /\ \A k \in 2..config.max_accounts_in_group :
          PassDone(k) =>
              \A p \in Range(find_continuous_patterns_optimized(wash_records)) :
                  /\ p \in Range(all_patterns)
                  /\ Len(p.accounts) = k
                  /\ p.n_accounts = k
    /\ \A i \in DOMAIN all_patterns :
          \A d \in DOMAIN all_patterns[i].details :
              /\ Range(all_patterns[i].details[d].accounts) = Range(all_patterns[i].accounts)
              /\ Cardinality(Range(all_patterns[i].accounts)) = Len(all_patterns[i].accounts)
              /\ all_patterns[i].details[d].lottery = all_patterns[i].lottery

\* C30 witness: detection ended with two patterns of two accounts each, for
\* two different account sets of one lottery, one of them over two rounds.
C30_Witness ==
    /\ pc = "done"
    /\ Len(all_patterns) = 2
    /\ all_patterns[1].lottery = all_patterns[2].lottery
    /\ all_patterns[1].accounts # all_patterns[2].accounts
    /\ Len(all_patterns[1].details) = 2
    /\ \A i \in DOMAIN all_patterns :
          Len(all_patterns[i].accounts) = 2 /\ all_patterns[i].details # <<>>

====
